---- MODULE Spec2Model ----
(***************************************************************************)
(* A model of the image-hosting HTTP service of main.go: the upload        *)
(* handler, the preview-page handler, the static file server mounted on    *)
(* /files/, the home handler, the random-name generator and the storage    *)
(* directory they share.  Every request is served by a goroutine of its    *)
(* own; the handlers take no lock, so their filesystem calls interleave.   *)
(* Strings are sequences of one-character strings, contents are sequences  *)
(* of bytes.                                                               *)
(***************************************************************************)
EXTENDS Integers, Sequences, FiniteSets, TLC

(***************************************************************************)
(* Bounds of the model.                                                    *)
(***************************************************************************)
\* Requests the server accepts in one run.
MaxRequests == 3
\* Longest string asked of RandomString in the specification SpecRS.
MaxRSLen == 3

\* The goroutines serving requests concurrently.
Procs == {1, 2}

(***************************************************************************)
(* Constants of the program.                                               *)
(***************************************************************************)
\* const charset, the alphabet of RandomString.
Charset == <<"a", "b", "c", "d", "e", "f", "g", "h", "i", "j", "k", "l", "m", "n", "o", "p", "q", "r", "s", "t", "u", "v", "w", "x", "y", "z", "A", "B", "C", "D", "E", "F", "G", "H", "I", "J", "K", "L", "M", "N", "O", "P", "Q", "R", "S", "T", "U", "V", "W", "X", "Y", "Z", "0", "1", "2", "3", "4", "5", "6", "7", "8", "9">>

\* The length FileUploadHandler asks of RandomString.
NameLen == 6

\* const BASE_URL.
BASE_URL == <<"h", "t", "t", "p", "s", ":", "/", "/", "i", ".", "k", "u", "u", "i", "c", "h", "i", ".", "x", "y", "z">>

\* The literal the extension is searched in.
ExtList == <<".", "j", "p", "g", ".", "j", "p", "e", "g", ".", "p", "n", "g", ".", "g", "i", "f", ".", "b", "m", "p">>

\* The values of a byte.
Bytes == 0..255

StatusOK == 200
StatusMovedPermanently == 301
StatusBadRequest == 400
StatusNotFound == 404
StatusMethodNotAllowed == 405
StatusInternalServerError == 500

\* The patterns registered in main.
PatUpload == <<"/", "u", "p", "l", "o", "a", "d">>
PatPreview == <<"/", "f", "/">>
PatFiles == <<"/", "f", "i", "l", "e", "s", "/">>
PatHome == <<"/">>

(***************************************************************************)
(* String functions of the standard library, as they compute.              *)
(***************************************************************************)
\* strings.HasPrefix
HasPrefix(s, pre) ==
    /\ Len(pre) <= Len(s)
    /\ SubSeq(s, 1, Len(pre)) = pre

\* strings.TrimPrefix
TrimPrefix(s, pre) ==
    IF HasPrefix(s, pre) THEN SubSeq(s, Len(pre) + 1, Len(s)) ELSE s

\* strings.HasSuffix
HasSuffix(s, suf) ==
    /\ Len(suf) <= Len(s)
    /\ SubSeq(s, Len(s) - Len(suf) + 1, Len(s)) = suf

\* strings.Contains: sub occurs in s as a contiguous run.
Contains(s, sub) ==
    \E i \in 0..(Len(s) - Len(sub)) : SubSeq(s, i + 1, i + Len(sub)) = sub

\* One character of strings.ToLower (ASCII letters).
ToLowerChar(c) ==
    IF \E i \in 27..52 : Charset[i] = c
    THEN Charset[(CHOOSE i \in 27..52 : Charset[i] = c) - 26]
    ELSE c

\* strings.ToLower
ToLower(s) == [i \in 1..Len(s) |-> ToLowerChar(s[i])]

\* filepath.Ext: the suffix from the last dot of the last path element.
Ext(path) ==
    LET dots == {i \in 1..Len(path) :
                   /\ path[i] = "."
                   /\ \A j \in i..Len(path) : path[j] # "/"}
    IN  IF dots = {} THEN << >>
        ELSE LET last == CHOOSE i \in dots : \A j \in dots : j <= i
             IN  SubSeq(path, last, Len(path))

(***************************************************************************)
(* RandomString (main.go, lines 20-30).  rnd is what rand.Read did: it     *)
(* failed, or it filled the buffer with rnd.bytes.                         *)
(***************************************************************************)
\* The off-by-one slip: the modulus one short of the alphabet.
CharsetIndex_ShortModulus(b) == b % (Len(Charset) - 1)

\* int(bytes[i]) % len(charset)
CharsetIndex(b) == b % Len(Charset)

\* The loop stopping one character early.
RandomString_OneShort(length, rnd) ==
    IF rnd.err
    THEN [s |-> << >>, err |-> TRUE]
    ELSE [s |-> [i \in 1..(length - 1) |-> Charset[CharsetIndex(rnd.bytes[i]) + 1]],
          err |-> FALSE]

RandomString(length, rnd) ==
    IF rnd.err
    THEN [s |-> << >>, err |-> TRUE]
    ELSE [s |-> [i \in 1..length |-> Charset[CharsetIndex(rnd.bytes[i]) + 1]],
          err |-> FALSE]

(***************************************************************************)
(* The inputs the requests are drawn from.                                 *)
(***************************************************************************)
\* r.Method
Methods == {"GET", "POST"}

\* header.Filename of the uploaded part.
Filenames == {<<"p", "i", "c", ".", "P", "N", "G">>, <<"a", ".", "t", "x", "t">>, <<"x", ".", "j", "p">>}

\* The bytes of the uploaded part.
Payloads == {<<7>>, <<8, 9>>}

\* What the multipart form of a request holds: no part named "file", or one.
NoForm == [hasFile |-> FALSE, filename |-> << >>, payload |-> << >>]

Forms ==
    {NoForm}
    \cup {[hasFile |-> TRUE, filename |-> f, payload |-> c] :
             f \in Filenames, c \in Payloads}

\* What rand.Read does for the six bytes of a name: it fails, or fills the
\* buffer.  The two buffers differ in every byte and give the same name, so two
\* uploads of one extension collide.
EntropyOutcomes ==
    { [err |-> TRUE, bytes |-> << >>],
      [err |-> FALSE, bytes |-> <<0, 27, 61, 7, 8, 52>>],
      [err |-> FALSE, bytes |-> <<62, 89, 123, 255, 70, 114>>] }

\* A name no upload of the model is given.
MissingName == <<"n", "o", "f", "i", "l", "e", ".", "p", "n", "g">>

IndexHtml == <<"i", "n", "d", "e", "x", ".", "h", "t", "m", "l">>

(***************************************************************************)
(* State.                                                                  *)
(***************************************************************************)
VARIABLES
    dirExists,   \* whether baseDir exists
    files,       \* the files of baseDir: name -> content
    issued,      \* how many requests the server has accepted
    pc,          \* per goroutine: the step it is at ("idle": it serves nothing)
    req,         \* per goroutine: the request it serves
    loc,         \* per goroutine: the handler's local variables
    last,        \* the response written last and its request, until the next
                 \* request is accepted
    alone,       \* history: the uploads in progress that no other upload has
                 \* overlapped since their os.Create
    lastUpload,  \* history: the upload answered 200 last, until the next upload
                 \* request is accepted
    rsIn,        \* SpecRS: the length asked of RandomString and what rand.Read did
    rsOut        \* SpecRS: what RandomString returned

fsVars == <<dirExists, files>>
srvVars == <<dirExists, files, issued, pc, req, loc, last, alone, lastUpload>>
rsVars == <<rsIn, rsOut>>
vars == <<dirExists, files, issued, pc, req, loc, last, alone, lastUpload, rsIn, rsOut>>

NoReq == [method |-> "", path |-> << >>, handler |-> "", form |-> NoForm]
\* fresh is history: whether os.Create made a file that was not there.
NoLoc == [ext |-> << >>, name |-> << >>, off |-> 0, size |-> 0, fresh |-> FALSE]
\* A response: its status and what its body is built from.  name is the file
\* name the URLs of a JSON response or of a preview page are formatted with.
NoResp == [status |-> 0, body |-> << >>, listing |-> FALSE, name |-> << >>,
           size |-> 0, total |-> 0, countErr |-> FALSE]
NoLast == [req |-> NoReq, step |-> "", resp |-> NoResp]
\* alone: no other upload was in progress since this one's os.Create; quiet: none
\* was in progress when it responded.
NoUpload == [valid |-> FALSE, filename |-> << >>, payload |-> << >>, name |-> << >>,
             alone |-> FALSE, quiet |-> FALSE]

\* An upload request is being served by p.
Uploading(p) == pc[p] # "idle" /\ req[p].handler = "upload"

(***************************************************************************)
(* The filesystem calls.                                                   *)
(***************************************************************************)
\* filepath.Join(baseDir, name) exists: the directory itself for the empty name.
Exists(name) ==
    IF name = << >> THEN dirExists ELSE dirExists /\ name \in DOMAIN files

\* FileInfo.Size() of filepath.Join(baseDir, name); 0 stands for a directory's size.
SizeOf(name) == IF name = << >> THEN 0 ELSE Len(files[name])

\* O_TRUNC forgotten: an existing file keeps its content.
CreateFile_NoTruncate(fs, name) ==
    [n \in DOMAIN fs \cup {name} |-> IF n \in DOMAIN fs THEN fs[n] ELSE << >>]

\* Every file of the directory emptied, not the one created alone.
CreateFile_Clobber(fs, name) ==
    [n \in DOMAIN fs \cup {name} |-> << >>]

\* os.Create: O_RDWR|O_CREATE|O_TRUNC, the file is there and empty.
CreateFile(fs, name) ==
    [n \in DOMAIN fs \cup {name} |-> IF n = name THEN << >> ELSE fs[n]]

\* A write of one byte at offset off of a file: past the end it leaves a hole of
\* zero bytes, inside it overwrites.
WriteAt(content, off, b) ==
    [i \in 1..(IF off + 1 > Len(content) THEN off + 1 ELSE Len(content)) |->
        IF i = off + 1 THEN b
        ELSE IF i <= Len(content) THEN content[i]
        ELSE 0]

\* os.ReadDir(baseDir): the number of entries.
NumEntries == Cardinality(DOMAIN files)

(***************************************************************************)
(* main (lines 181-186): the routes.  A goroutine serves one request; the  *)
(* actions below are its steps, one per call that reads or writes the      *)
(* filesystem together with the local computation around it, so that the   *)
(* calls of concurrent requests interleave as they do in the program.      *)
(***************************************************************************)
\* http.ServeMux: the handler of the longest pattern matching the path.
Route(path) ==
    IF path = PatUpload THEN "upload"
    ELSE IF HasPrefix(path, PatFiles) THEN "files"
    ELSE IF HasPrefix(path, PatPreview) THEN "preview"
    ELSE "home"

\* The names clients ask /f/ and /files/ for: every stored name, the empty name
\* and a name of no stored file.
RequestNames == DOMAIN files \cup {<< >>, MissingName}

Request(m, path, form) ==
    [method |-> m, path |-> path, handler |-> Route(path), form |-> form]

\* The server hands request r to a goroutine of its own: p, the first one free.
Accepts(p, r) ==
    /\ issued < MaxRequests
    /\ pc[p] = "idle"
    /\ \A q \in Procs : q < p => pc[q] # "idle"
    /\ issued' = issued + 1
    /\ alone' = IF r.handler = "upload" THEN {} ELSE alone

\* http.Error(w, msg, code): the response is the status alone.
Error(code) == [NoResp EXCEPT !.status = code]

\* The handler serving r for p returns from step with response rs.
Returns(p, r, step, rs) ==
    /\ pc' = [pc EXCEPT ![p] = "idle"]
    /\ req' = [req EXCEPT ![p] = NoReq]
    /\ loc' = [loc EXCEPT ![p] = NoLoc]
    /\ last' = [req |-> r, step |-> step, resp |-> rs]

\* The handler serving r for p goes on to step with locals l.
GoesOn(p, r, step, l) ==
    /\ pc' = [pc EXCEPT ![p] = step]
    /\ req' = [req EXCEPT ![p] = r]
    /\ loc' = [loc EXCEPT ![p] = l]

(***************************************************************************)
(* FileUploadHandler (lines 33-93).                                        *)
(***************************************************************************)
\* Line 54: strings.Contains(".jpg.jpeg.png.gif.bmp", ext).
ExtAccepted(ext) == Contains(ExtList, ext)

\* Lines 34-57, from the method check to the extension check; os.MkdirAll is
\* the one call on the filesystem.
Upload_Check(p) ==
    \E m \in Methods, form \in Forms :
        LET r == Request(m, PatUpload, form)
            ext == ToLower(Ext(form.filename))
        IN  /\ r.handler = "upload"
            /\ Accepts(p, r)
            /\ IF m # "POST"
               THEN /\ Returns(p, r, "method", Error(StatusMethodNotAllowed))
                    /\ dirExists' = dirExists
               ELSE IF ~form.hasFile
               THEN /\ Returns(p, r, "formfile", Error(StatusBadRequest))
                    /\ dirExists' = dirExists
               ELSE \E mkdirOk \in BOOLEAN :
                    IF ~mkdirOk
                    THEN /\ Returns(p, r, "mkdir", Error(StatusInternalServerError))
                         /\ dirExists' = dirExists
                    ELSE IF ~ExtAccepted(ext)
                    THEN /\ Returns(p, r, "ext", Error(StatusBadRequest))
                         /\ dirExists' = TRUE
                    ELSE /\ GoesOn(p, r, "random", [NoLoc EXCEPT !.ext = ext])
                         /\ last' = NoLast
                         /\ dirExists' = TRUE
            /\ lastUpload' = NoUpload
            /\ UNCHANGED <<files, rsVars>>

\* Lines 60-74: the name is the random string followed by the extension, and
\* os.Create makes the file, or empties the one that is there.
Upload_Create(p) ==
    /\ Uploading(p)
    /\ pc[p] = "random"
    /\ \E rnd \in EntropyOutcomes, createOk \in BOOLEAN :
          LET r == RandomString(NameLen, rnd)
              newFilename == r.s \o loc[p].ext
          IN  IF r.err
              THEN /\ Returns(p, req[p], "random", Error(StatusInternalServerError))
                   /\ alone' = alone \ {p}
                   /\ UNCHANGED files
              ELSE IF ~(createOk /\ dirExists)
              THEN /\ Returns(p, req[p], "create", Error(StatusInternalServerError))
                   /\ alone' = alone \ {p}
                   /\ UNCHANGED files
              ELSE /\ files' = CreateFile(files, newFilename)
                   /\ GoesOn(p, req[p], "copy",
                             [loc[p] EXCEPT !.name = newFilename, !.off = 0,
                                            !.fresh = ~Exists(newFilename)])
                   /\ alone' = IF \A q \in Procs \ {p} : ~Uploading(q)
                               THEN alone \cup {p}
                               ELSE alone \ {p}
                   /\ UNCHANGED last
    /\ UNCHANGED <<dirExists, issued, lastUpload, rsVars>>

\* Lines 81-82, and 121-122 of serveImageHTML.
ImageUrl(name) == BASE_URL \o PatPreview \o name
RawUrl(name) == BASE_URL \o PatFiles \o name

\* Lines 85-92: the JSON response {"imageUrl": ImageUrl(name), "rawUrl": RawUrl(name)}.
UploadResponse(name) == [NoResp EXCEPT !.status = StatusOK, !.name = name]

\* Lines 75-92: io.Copy(out, file), one write of its loop per step, each
\* goroutine writing at the offset of its own file descriptor; at the end of
\* the part the handler responds.
Upload_Copy(p) ==
    /\ Uploading(p)
    /\ pc[p] = "copy"
    /\ \E copyOk \in BOOLEAN :
          LET payload == req[p].form.payload
              off == loc[p].off
          IN  IF ~copyOk
              THEN /\ Returns(p, req[p], "copy", Error(StatusInternalServerError))
                   /\ alone' = alone \ {p}
                   /\ UNCHANGED <<files, lastUpload>>
              ELSE IF off < Len(payload)
              THEN /\ files' = [files EXCEPT ![loc[p].name] =
                                   WriteAt(@, off, payload[off + 1])]
                   /\ GoesOn(p, req[p], "copy", [loc[p] EXCEPT !.off = off + 1])
                   /\ UNCHANGED <<last, alone, lastUpload>>
              ELSE /\ Returns(p, req[p], "respond", UploadResponse(loc[p].name))
                   /\ lastUpload' = [valid |-> TRUE,
                                     filename |-> req[p].form.filename,
                                     payload |-> payload,
                                     name |-> loc[p].name,
                                     alone |-> p \in alone,
                                     quiet |-> \A q \in Procs \ {p} : ~Uploading(q)]
                   /\ alone' = alone \ {p}
                   /\ UNCHANGED files
    /\ UNCHANGED <<dirExists, issued, rsVars>>

(***************************************************************************)
(* serveImageHTML (lines 95-157) and countFiles (lines 159-165).           *)
(***************************************************************************)
\* Lines 96-110: both os.Stat calls.  The first answers 404 when the path does
\* not exist, the second when it returns any error.
Preview_Stat(p) ==
    \E m \in Methods, n \in RequestNames, statErr \in BOOLEAN :
        LET r == Request(m, PatPreview \o n, NoForm)
            filename == TrimPrefix(r.path, PatPreview)
        IN  /\ r.handler = "preview"
            /\ Accepts(p, r)
            /\ IF ~Exists(filename) \/ statErr
               THEN Returns(p, r, "stat", Error(StatusNotFound))
               ELSE /\ GoesOn(p, r, "render", [NoLoc EXCEPT !.name = filename,
                                                            !.size = SizeOf(filename)])
                    /\ last' = NoLast
            /\ UNCHANGED <<fsVars, lastUpload, rsVars>>

\* countFiles: os.ReadDir fails, or the number of entries is returned.
countFiles(readDirErr) ==
    IF readDirErr THEN [n |-> 0, err |-> TRUE] ELSE [n |-> NumEntries, err |-> FALSE]

\* Line 113 and the %.2f of line 118: the size in hundredths of a megabyte.
FileSizeCentiMB(size) == (size * 100 + 524288) \div 1048576

\* A failed count answered as an internal error.
PreviewResponse_FailOnCount(name, size, counted) ==
    IF counted.err
    THEN [Error(StatusInternalServerError) EXCEPT !.countErr = TRUE]
    ELSE [NoResp EXCEPT !.status = StatusOK,
                        !.size = FileSizeCentiMB(size),
                        !.total = counted.n,
                        !.countErr = counted.err,
                        !.name = name]

\* Lines 114-156: the page; its title is name, its og:image RawUrl(name) and its
\* og:url ImageUrl(name).
PreviewResponse(name, size, counted) ==
    [NoResp EXCEPT !.status = StatusOK,
                   !.size = FileSizeCentiMB(size),
                   !.total = IF counted.err THEN 0 ELSE counted.n,
                   !.countErr = counted.err,
                   !.name = name]

Preview_Render(p) ==
    /\ pc[p] = "render"
    /\ \E readDirErr \in BOOLEAN :
          Returns(p, req[p], "render",
                  PreviewResponse(loc[p].name, loc[p].size, countFiles(readDirErr)))
    /\ UNCHANGED <<fsVars, issued, alone, lastUpload, rsVars>>

(***************************************************************************)
(* http.StripPrefix("/files/", http.FileServer(http.Dir(baseDir))),        *)
(* line 186.                                                               *)
(***************************************************************************)
\* The file server opening the file of another name: the extension dropped.
FileServerResponse_DropsExt(name) ==
    LET stem == SubSeq(name, 1, Len(name) - Len(Ext(name)))
    IN  IF stem # << >> /\ Exists(stem)
        THEN [NoResp EXCEPT !.status = StatusOK, !.body = files[stem]]
        ELSE Error(StatusNotFound)

\* The file server: a path ending in /index.html is redirected, a directory is
\* listed, a file is sent whole, anything else is not found.
FileServerResponse(name) ==
    IF HasSuffix(PatHome \o name, PatHome \o IndexHtml)
    THEN Error(StatusMovedPermanently)
    ELSE IF ~Exists(name)
    THEN Error(StatusNotFound)
    ELSE IF name = << >>
    THEN [NoResp EXCEPT !.status = StatusOK, !.listing = TRUE]
    ELSE [NoResp EXCEPT !.status = StatusOK, !.body = files[name]]

Files_Serve(p) ==
    \E m \in Methods, n \in RequestNames :
        LET r == Request(m, PatFiles \o n, NoForm)
        IN  /\ r.handler = "files"
            /\ Accepts(p, r)
            /\ Returns(p, r, "serve", FileServerResponse(TrimPrefix(r.path, PatFiles)))
            /\ UNCHANGED <<fsVars, lastUpload, rsVars>>

(***************************************************************************)
(* HomeHandler (lines 168-178).                                            *)
(***************************************************************************)
HomeHandler(p) ==
    \E m \in Methods :
        LET r == Request(m, PatHome, NoForm)
        IN  /\ r.handler = "home"
            /\ Accepts(p, r)
            /\ Returns(p, r, "home", Error(StatusOK))
            /\ UNCHANGED <<fsVars, lastUpload, rsVars>>

(***************************************************************************)
(* The server.                                                             *)
(***************************************************************************)
NoRS == [length |-> 0, rnd |-> [err |-> FALSE, bytes |-> << >>]]
NoOut == [called |-> FALSE, s |-> << >>, err |-> FALSE]

\* The server starts with no request, the storage root absent or empty.
InitServer ==
    /\ dirExists \in BOOLEAN
    /\ files = << >>
    /\ issued = 0
    /\ pc = [p \in Procs |-> "idle"]
    /\ req = [p \in Procs |-> NoReq]
    /\ loc = [p \in Procs |-> NoLoc]
    /\ last = NoLast
    /\ alone = {}
    /\ lastUpload = NoUpload

Init ==
    /\ InitServer
    /\ rsIn = NoRS
    /\ rsOut = NoOut

Next ==
    \E p \in Procs :
        \/ Upload_Check(p)
        \/ Upload_Create(p)
        \/ Upload_Copy(p)
        \/ Preview_Stat(p)
        \/ Preview_Render(p)
        \/ Files_Serve(p)
        \/ HomeHandler(p)

Spec == Init /\ [][Next]_vars

(***************************************************************************)
(* SpecRS: RandomString alone, on every length up to MaxRSLen and buffers  *)
(* in which one byte takes every value and the others are 0 or 255.        *)
(***************************************************************************)
EdgeBytes == {0, 255}

RSBuffers(n) ==
    {[i \in 1..n |-> IF i = k THEN b ELSE e[i]] :
        k \in 1..n, b \in Bytes, e \in [1..n -> EdgeBytes]}

RSInputs ==
    {[length |-> n, rnd |-> [err |-> TRUE, bytes |-> << >>]] : n \in 0..MaxRSLen}
    \cup {[length |-> 0, rnd |-> [err |-> FALSE, bytes |-> << >>]]}
    \cup UNION {{[length |-> n, rnd |-> [err |-> FALSE, bytes |-> b]] : b \in RSBuffers(n)} :
                  n \in 1..MaxRSLen}

InitRS ==
    /\ InitServer
    /\ dirExists = FALSE
    /\ rsIn \in RSInputs
    /\ rsOut = NoOut

\* A call of RandomString(rsIn.length).
RS_Call ==
    /\ ~rsOut.called
    /\ LET r == RandomString(rsIn.length, rsIn.rnd)
       IN  rsOut' = [called |-> TRUE, s |-> r.s, err |-> r.err]
    /\ UNCHANGED <<srvVars, rsIn>>

NextRS == RS_Call

SpecRS == InitRS /\ [][NextRS]_vars

(***************************************************************************)
(* What the properties below speak of.                                     *)
(***************************************************************************)
\* The five extensions of the allow-list.
AllowedExts == {<<".", "j", "p", "g">>, <<".", "j", "p", "e", "g">>, <<".", "p", "n", "g">>, <<".", "g", "i", "f">>, <<".", "b", "m", "p">>}

\* The path a client requests for a URL of this server.
UrlPath(url) == TrimPrefix(url, BASE_URL)

\* The step wrote a response (it is last').
Responds ==
    \/ issued' # issued /\ last' # NoLast
    \/ \E p \in Procs : pc[p] # "idle" /\ pc'[p] = "idle"

\* The name asked of /f/ or /files/ by request r.
AskedName(r) ==
    IF r.handler = "files" THEN TrimPrefix(r.path, PatFiles)
    ELSE TrimPrefix(r.path, PatPreview)

\* s is the first Len(s) elements of c.
IsPrefix(s, c) == Len(s) <= Len(c) /\ s = SubSeq(c, 1, Len(s))

\* Natural numbers past TLC's integers: little-endian digits to the base 2^15.
BigBase == 2^15

RECURSIVE BigMulCarry(_, _, _)
BigMulCarry(x, k, carry) ==
    IF x = << >>
    THEN IF carry = 0 THEN << >> ELSE <<carry>>
    ELSE LET v == Head(x) * k + carry
         IN  <<v % BigBase>> \o BigMulCarry(Tail(x), k, v \div BigBase)

RECURSIVE BigPow(_, _)
BigPow(a, n) == IF n = 0 THEN <<1>> ELSE BigMulCarry(BigPow(a, n - 1), a, 0)

RECURSIVE BitLen(_)
BitLen(d) == IF d = 0 THEN 0 ELSE 1 + BitLen(d \div 2)

\* The number of binary digits of x: x lies in [2^(BigBitLen(x)-1), 2^BigBitLen(x)).
BigBitLen(x) == 15 * (Len(x) - 1) + BitLen(x[Len(x)])

\* The characters RandomString can put at a position.
NameChars == {Charset[CharsetIndex(b) + 1] : b \in Bytes}

\* The random part of a stored name: what precedes its extension.
RandomPart(n) == SubSeq(n, 1, Len(n) - Len(Ext(n)))

\* The number of strings RandomString can return at a length.
NameSpaceSize(length) == BigPow(Cardinality(NameChars), length)

\* The letters and digits, written out apart from the program's charset.
LowerLetters == <<"a", "b", "c", "d", "e", "f", "g", "h", "i", "j", "k", "l", "m", "n", "o", "p", "q", "r", "s", "t", "u", "v", "w", "x", "y", "z">>
UpperLetters == <<"A", "B", "C", "D", "E", "F", "G", "H", "I", "J", "K", "L", "M", "N", "O", "P", "Q", "R", "S", "T", "U", "V", "W", "X", "Y", "Z">>
Digits == <<"0", "1", "2", "3", "4", "5", "6", "7", "8", "9">>
Alphabet62 == LowerLetters \o UpperLetters \o Digits

(***************************************************************************)
(* C8.  RandomString(N) with the entropy bytes b_1..b_N returns N          *)
(* characters, the i-th being the (b_i mod 62)-th of the 62 letters and    *)
(* digits; of the 256 byte values five give each of 'a'..'h' and four each *)
(* other character; when the entropy source fails it returns the empty     *)
(* string and an error.                                                    *)
(***************************************************************************)
C8_RandomStringMapping ==
    rsOut.called =>
        IF rsIn.rnd.err
        THEN rsOut.s = << >> /\ rsOut.err
        ELSE /\ ~rsOut.err
             /\ Len(rsOut.s) = rsIn.length
             /\ Len(Alphabet62) = 62
             /\ \A i \in 1..rsIn.length :
                   /\ rsOut.s[i] = Alphabet62[(rsIn.rnd.bytes[i] % 62) + 1]
                   /\ Cardinality({b \in Bytes :
                                     Charset[CharsetIndex(b) + 1] = rsOut.s[i]})
                        = IF \E j \in 1..8 : LowerLetters[j] = rsOut.s[i] THEN 5 ELSE 4

\* A two-character string whose bytes 61 and 255 give '9' and 'h'.
C8_Witness ==
    /\ rsOut.called
    /\ ~rsOut.err
    /\ rsIn.rnd.bytes = <<61, 255>>
    /\ rsOut.s = <<"9", "h">>

(***************************************************************************)
(* C10, as amended.  The random part of every stored name is 6 characters  *)
(* of an alphabet of 62, so there are 62^6 random names, and 62^6 lies     *)
(* between 2^35 and 2^36: about 35.7 bits.                                 *)
(***************************************************************************)
C10_NameSpace ==
    \A n \in DOMAIN files :
        /\ Len(RandomPart(n)) = 6
        /\ \A i \in 1..6 : n[i] \in NameChars
        /\ Cardinality(NameChars) = 62
        /\ NameSpaceSize(Len(RandomPart(n))) = BigPow(62, 6)
        /\ BigBitLen(NameSpaceSize(Len(RandomPart(n)))) = 36

\* C10 as stated: the names are 62^6 and 62^6 is about 2^56, that is, between
\* 2^55 and 2^57.
C10_AsStated ==
    \A n \in DOMAIN files :
        /\ NameSpaceSize(Len(RandomPart(n))) = BigPow(62, 6)
        /\ BigBitLen(NameSpaceSize(Len(RandomPart(n)))) \in 56..57

\* A file stored under six random characters and .png.
C10_Witness ==
    \E n \in DOMAIN files : Len(n) = 10 /\ Ext(n) = <<".", "p", "n", "g">>

(***************************************************************************)
(* C7.  Once the stat of a request to /f/<name> has succeeded, whatever    *)
(* the method, serveImageHTML answers 200: with 'Total uploads: 0' when    *)
(* the directory listing fails, with the number of entries of the storage  *)
(* root otherwise.  It never answers 500.                                  *)
(***************************************************************************)
C7_PreviewAvailability ==
    [][(Responds /\ last'.req.handler = "preview") =>
          /\ last'.resp.status \in {StatusOK, StatusNotFound}
          /\ last'.step = "render" =>
                /\ last'.resp.status = StatusOK
                /\ last'.resp.total =
                      IF last'.resp.countErr THEN 0 ELSE Cardinality(DOMAIN files)]_vars

\* A POST to /f/<name> answered 200 with a count of 0 after a failed listing of a
\* directory that holds a file.
C7_Witness ==
    /\ last.req.handler = "preview"
    /\ last.req.method = "POST"
    /\ last.step = "render"
    /\ last.resp.status = StatusOK
    /\ last.resp.countErr
    /\ last.resp.total = 0
    /\ AskedName(last.req) \in DOMAIN files

(***************************************************************************)
(* C9.  The upload writes into the final path as it copies: while an       *)
(* upload that no other upload overlaps is copying, the file under its     *)
(* name holds exactly the bytes copied so far, and a request to /files/    *)
(* for that name is answered 200 with those bytes, a prefix of the payload *)
(* that may be a strict one, before the upload has responded.              *)
(***************************************************************************)
C9_PartialReads ==
    /\ [](\A p \in Procs :
            (Uploading(p) /\ pc[p] = "copy" /\ p \in alone) =>
                /\ Exists(loc[p].name)
                /\ files[loc[p].name] = SubSeq(req[p].form.payload, 1, loc[p].off))
    /\ [][\A p \in Procs :
            (/\ Uploading(p) /\ pc[p] = "copy" /\ p \in alone
             /\ Responds
             /\ last'.req.handler = "files"
             /\ AskedName(last'.req) = loc[p].name) =>
                /\ last'.resp.status = StatusOK
                /\ last'.resp.body = SubSeq(req[p].form.payload, 1, loc[p].off)]_vars

\* A read answered 200 with one byte of a two-byte payload whose upload is
\* still copying.
C9_Witness ==
    \E p \in Procs :
        /\ Uploading(p)
        /\ pc[p] = "copy"
        /\ last.req.handler = "files"
        /\ AskedName(last.req) = loc[p].name
        /\ last.resp.status = StatusOK
        /\ Len(last.resp.body) = 1
        /\ Len(req[p].form.payload) = 2
        /\ IsPrefix(last.resp.body, req[p].form.payload)

(***************************************************************************)
(* C1, as amended.  For a POST /upload of a file with an allowed extension *)
(* that is answered 200, a GET of the path of the returned rawUrl returns  *)
(* 200 and the uploaded payload, provided no other upload was in progress  *)
(* at any time between this upload's os.Create and the GET.                *)
(***************************************************************************)
\* The step serves a request to /files/ for the rawUrl of the last upload.
FetchesLastUpload ==
    /\ lastUpload.valid
    /\ ToLower(Ext(lastUpload.filename)) \in AllowedExts
    /\ Responds
    /\ last'.req.handler = "files"
    /\ last'.req.path = UrlPath(RawUrl(lastUpload.name))

C1_RoundTrip ==
    [][(FetchesLastUpload /\ lastUpload.alone) =>
          /\ last'.resp.status = StatusOK
          /\ last'.resp.body = lastUpload.payload]_vars

\* C1 as stated: it is enough that no other upload was in progress or accepted
\* between the response and the GET.
C1_AsStated ==
    [][(FetchesLastUpload /\ lastUpload.quiet) =>
          /\ last'.resp.status = StatusOK
          /\ last'.resp.body = lastUpload.payload]_vars

\* pic.PNG uploaded with two bytes, stored as .png and fetched whole.
C1_Witness ==
    /\ lastUpload.valid
    /\ lastUpload.alone
    /\ lastUpload.filename = <<"p", "i", "c", ".", "P", "N", "G">>
    /\ Ext(lastUpload.name) = <<".", "p", "n", "g">>
    /\ last.req.handler = "files"
    /\ last.req.path = UrlPath(RawUrl(lastUpload.name))
    /\ last.resp.status = StatusOK
    /\ last.resp.body = lastUpload.payload
    /\ Len(lastUpload.payload) = 2

(***************************************************************************)
(* C3, as amended.  What a request to /upload does to the filesystem,      *)
(* step by step: the checks change nothing but the existence of the        *)
(* storage directory, which os.MkdirAll creates before the extension is    *)
(* looked at, so a request answered 405, 400 for a missing file or 500 for *)
(* a failed MkdirAll changes nothing and one rejected for its extension    *)
(* may have created the directory; os.Create adds the one name of the      *)
(* request, or empties the file already stored under it, so the set of     *)
(* stored names grows by one or, on a name collision, not at all; the copy *)
(* changes the content of that one file only, also when it fails; the      *)
(* response 200 is written with the file in place; no request to another   *)
(* route changes anything.                                                 *)
(***************************************************************************)
\* The step is the first one of a request to /upload.
ChecksUpload ==
    /\ issued' # issued
    /\ \/ last'.req.handler = "upload"
       \/ \E p \in Procs : pc[p] = "idle" /\ pc'[p] = "random"

\* The step is one of goroutine p.
StepOf(p) == pc'[p] # pc[p] \/ loc'[p] # loc[p]

\* The step is one of a request to /upload.
UploadStep ==
    \/ ChecksUpload
    \/ \E p \in Procs : Uploading(p) /\ StepOf(p)

C3_UploadEffects ==
    [][/\ ChecksUpload =>
             /\ files' = files
             /\ dirExists => dirExists'
             /\ last'.step \in {"method", "formfile", "mkdir"} => dirExists' = dirExists
       /\ \A p \in Procs :
             /\ (pc[p] = "random" /\ pc'[p] = "copy") =>
                   /\ dirExists' = dirExists
                   /\ DOMAIN files' = DOMAIN files \cup {loc'[p].name}
                   /\ files'[loc'[p].name] = << >>
                   /\ \A n \in DOMAIN files : n # loc'[p].name => files'[n] = files[n]
                   /\ Cardinality(DOMAIN files') =
                         Cardinality(DOMAIN files) + (IF loc'[p].fresh THEN 1 ELSE 0)
             /\ (pc[p] = "random" /\ pc'[p] = "idle") =>
                   /\ last'.resp.status = StatusInternalServerError
                   /\ UNCHANGED fsVars
             /\ (pc[p] = "copy" /\ StepOf(p)) =>
                   /\ dirExists' = dirExists
                   /\ DOMAIN files' = DOMAIN files
                   /\ \A n \in DOMAIN files : n # loc[p].name => files'[n] = files[n]
                   /\ pc'[p] = "idle" => files' = files
                   /\ (pc'[p] = "idle" /\ last'.resp.status = StatusOK) =>
                         loc[p].name \in DOMAIN files
       /\ ~UploadStep => UNCHANGED fsVars]_vars

\* C3 as stated: an upload answered 200 has added a name to the stored ones, and
\* a request rejected for its extension has left the existence of the storage
\* directory as it was.
C3_AsStated ==
    [][/\ \A p \in Procs :
             (pc[p] = "copy" /\ pc'[p] = "idle" /\ last'.resp.status = StatusOK) =>
                 loc[p].fresh
       /\ (ChecksUpload /\ last'.step = "ext") => dirExists' = dirExists]_vars

\* An upload answered 200 after its os.Create emptied a file stored before.
C3_Witness ==
    /\ last.req.handler = "upload"
    /\ last.resp.status = StatusOK
    /\ Cardinality(DOMAIN files) = 1
    /\ issued = 2
    /\ lastUpload.valid
    /\ lastUpload.alone
    /\ files[lastUpload.name] = lastUpload.payload

(***************************************************************************)
(* C4, as amended.  A stored file is never deleted, and its content is     *)
(* changed only by an upload that was given the same name, whose os.Create *)
(* empties it and whose copy writes into it; requests to /, /f/ and        *)
(* /files/ and uploads under other names leave it as it is.                *)
(***************************************************************************)
C4_StoredFilesKept ==
    [][/\ dirExists => dirExists'
       /\ \A n \in DOMAIN files :
             /\ n \in DOMAIN files'
             /\ files'[n] # files[n] =>
                   \E p \in Procs :
                       /\ Uploading(p)
                       /\ pc'[p] = "copy"
                       /\ loc'[p].name = n]_vars

\* C4 as stated: after an upload has been answered 200, the content stored under
\* its name stays what it was.
C4_AsStated ==
    [][(lastUpload.valid /\ lastUpload' = lastUpload) =>
          /\ lastUpload.name \in DOMAIN files'
          /\ files'[lastUpload.name] = files[lastUpload.name]]_vars

\* The file of a finished upload, intact while a later upload under another name
\* is copying.
C4_Witness ==
    \E p \in Procs :
        /\ Uploading(p)
        /\ pc[p] = "copy"
        /\ \E n \in DOMAIN files :
              /\ n # loc[p].name
              /\ files[n] = <<8, 9>>

(***************************************************************************)
(* C2.  A POST /upload whose file has a lowercased extension outside       *)
(* {.jpg, .jpeg, .png, .gif, .bmp} is answered 400 (unless os.MkdirAll     *)
(* failed first) and stores nothing: no upload goes past the extension     *)
(* check, and no file is stored, with another extension.                   *)
(***************************************************************************)
C2_ExtensionAllowList ==
    /\ \A p \in Procs :
          Uploading(p) => ToLower(Ext(req[p].form.filename)) \in AllowedExts
    /\ \A n \in DOMAIN files : Ext(n) \in AllowedExts
    /\ (/\ last.req.handler = "upload"
        /\ last.req.method = "POST"
        /\ last.req.form.hasFile
        /\ last.step # "mkdir"
        /\ ToLower(Ext(last.req.form.filename)) \notin AllowedExts)
          => last.resp.status = StatusBadRequest

(***************************************************************************)
(* C5.  A request to /f/<name> or /files/<name> for a name, the empty one  *)
(* included, that is not the name of a stored file is answered 404.        *)
(***************************************************************************)
C5_NotFound ==
    [][(/\ Responds
        /\ last'.req.handler \in {"preview", "files"}
        /\ AskedName(last'.req) \notin DOMAIN files)
          => last'.resp.status = StatusNotFound]_vars

(***************************************************************************)
(* C6.  The response of FileUploadHandler is that of the first step that   *)
(* fails, in the order method (405), file part (400), directory creation   *)
(* (500), extension outside the five allowed (400), random name (500),     *)
(* file creation (500), copy (500); it is 200 exactly when no step fails,  *)
(* and no step runs after the failing one.                                 *)
(***************************************************************************)
\* The status of a request that returned from step.
StatusOfStep(step) ==
    CASE step = "method" -> StatusMethodNotAllowed
      [] step \in {"formfile", "ext"} -> StatusBadRequest
      [] step \in {"mkdir", "random", "create", "copy"} -> StatusInternalServerError
      [] OTHER -> StatusOK

\* The steps a request gets through at most, its method, form and extension
\* being what they are: the step it must return from, if any.
MustFailAt(r, extOk) ==
    IF r.method # "POST" THEN {"method"}
    ELSE IF ~r.form.hasFile THEN {"formfile"}
    ELSE IF ~extOk THEN {"mkdir", "ext"}
    ELSE {"mkdir", "random", "create", "copy", "respond"}

C6_ErrorPrecedence ==
    /\ last.req.handler = "upload" =>
          /\ last.step \in MustFailAt(last.req,
                                      ToLower(Ext(last.req.form.filename)) \in AllowedExts)
          /\ last.resp.status = StatusOfStep(last.step)
          /\ last.resp.status = StatusOK <=> last.step = "respond"
    /\ \A p \in Procs :
          Uploading(p) =>
              "respond" \in MustFailAt(req[p],
                                       ToLower(Ext(req[p].form.filename)) \in AllowedExts)

\* The same with the extension check the program makes: the order and the
\* statuses are those of the claim.
UploadPrecedenceOfTheCode ==
    /\ last.req.handler = "upload" =>
          /\ last.step \in MustFailAt(last.req,
                                      ExtAccepted(ToLower(Ext(last.req.form.filename))))
          /\ last.resp.status = StatusOfStep(last.step)
          /\ last.resp.status = StatusOK <=> last.step = "respond"
    /\ \A p \in Procs :
          Uploading(p) =>
              "respond" \in MustFailAt(req[p],
                                       ExtAccepted(ToLower(Ext(req[p].form.filename))))

====
